---------------------------- MODULE Spec2Model ----------------------------
(***************************************************************************)
(* Double-slit particle simulation (SimulationCanvas.tsx, App.tsx,         *)
(* Controls.tsx).  The state is the particle store (particlesRef), the id  *)
(* counter, the configuration and running flag owned by App, the           *)
(* animation loop's emission clock, and App's histogram.  One Tick is one  *)
(* call of the requestAnimationFrame callback `loop`: the emission gate,   *)
(* spawnParticle, then updateParticles with its onParticleLand calls.      *)
(*                                                                         *)
(* Vertical positions and velocities are JavaScript numbers: they are     *)
(* kept as IEEE 754 doubles and every operation on them rounds as the      *)
(* hardware does (section "JavaScript numbers").  Horizontal positions are *)
(* small integers, on which double arithmetic is exact.  The cosmetic      *)
(* `color` field of a particle is left out.                                *)
(***************************************************************************)
EXTENDS Integers, Sequences, FiniteSets, TLC

\* ------------------------------------------------------------------------
\* Program constants
\* ------------------------------------------------------------------------
CANVAS_HEIGHT == 400
SOURCE_X == 50
SLIT_X == 250
SCREEN_X == 750
VX == 4
BIN_SIZE == 5
SCREEN_HEIGHT == 400
NUM_BINS == SCREEN_HEIGHT \div BIN_SIZE
MinEmissionRate == 1
DefaultSlitDistance == 80
DefaultWavelength == 500
DefaultEmissionRate == 5
FrameMs == 1000
FramesPerSecond == 60

\* timeToSlit = dx / 4 and timeToHit = dx / p.vx, in ticks
TimeToSlit == (SLIT_X - SOURCE_X) \div VX
TimeToHit(vx) == (SCREEN_X - SLIT_X) \div vx

\* ------------------------------------------------------------------------
\* JavaScript numbers
\* ------------------------------------------------------------------------
\* y, vy and targetY are IEEE 754 doubles.  A double v of the range the
\* canvas uses (|v| < 2^23, a multiple of 2^-72) is kept as the integer
\* v * 2^72, written in four digits of base Limb, most significant first:
\* v = d[1] + d[2] / Limb + d[3] / Limb^2 + d[4] / Limb^3 with
\* 0 <= d[2], d[3], d[4] < Limb, so that d[1] = Math.floor(v).  An operation
\* computes the exact result and rounds it to 53 significant bits, ties to
\* even, as the hardware does.  Intermediate results are bound once, as the
\* elements of one-element sets.
Limb == 16777216

MantissaBits == 53

\* carries (and borrows) propagated towards the most significant digit
Norm(d) ==
  LET c4 == d[4] \div Limb
      c3 == (d[3] + c4) \div Limb
      c2 == (d[2] + c3) \div Limb
  IN << d[1] + c2, (d[2] + c3) % Limb, (d[3] + c4) % Limb, d[4] % Limb >>

FromInt(n) == << n, 0, 0, 0 >>

Floor(d) == d[1]

IsNeg(d) == d[1] < 0

Neg(d) == Norm(<< -d[1], -d[2], -d[3], -d[4] >>)

\* number of bits of 0 <= v < Limb
BitLen(v) == CHOOSE n \in 0 .. 24 : v < 2^n /\ (n = 0 \/ v >= 2^(n - 1))

\* number of bits of the integer m * 2^72, for m >= 0
BitLength(m) ==
  IF m[1] > 0 THEN 72 + BitLen(m[1])
  ELSE IF m[2] > 0 THEN 48 + BitLen(m[2])
  ELSE IF m[3] > 0 THEN 24 + BitLen(m[3])
  ELSE BitLen(m[4])

\* round-to-nearest-even decision: the dropped bits are `low` followed by
\* `rest`, half is the weight of the first dropped bit within `low`
RoundsUp(low, half, restZero, odd) ==
  low > half \/ (low = half /\ (~restZero \/ odd))

\* m >= 0 with its r > 0 lowest bits rounded away
RoundAt(m, r, sticky) ==
  IF r < 24
  THEN LET unit == 2^r
           low == m[4] % unit
           up == RoundsUp(low, unit \div 2, ~sticky, (m[4] \div unit) % 2 = 1)
       IN Norm(<< m[1], m[2], m[3],
                  m[4] - low + (IF up THEN unit ELSE 0) >>)
  ELSE IF r = 24
  THEN LET up == RoundsUp(m[4], Limb \div 2, ~sticky, m[3] % 2 = 1)
       IN Norm(<< m[1], m[2], m[3] + (IF up THEN 1 ELSE 0), 0 >>)
  ELSE LET unit == 2^(r - 24)
           low == m[3] % unit
           up == RoundsUp(low, unit \div 2, m[4] = 0 /\ ~sticky,
                          (m[3] \div unit) % 2 = 1)
       IN Norm(<< m[1], m[2], m[3] - low + (IF up THEN unit ELSE 0), 0 >>)

\* m >= 0 rounded to MantissaBits significant bits; sticky says that the
\* exact value has further nonzero bits below 2^-72
RoundMag(m, sticky) ==
  CHOOSE v \in {IF r <= 0 THEN m ELSE RoundAt(m, r, sticky) :
                  r \in {BitLength(m) - MantissaBits}} : TRUE

Round(d, sticky) ==
  IF IsNeg(d)
  THEN CHOOSE v \in {Neg(u) : u \in {RoundMag(m, sticky) : m \in {Neg(d)}}} :
         TRUE
  ELSE RoundMag(d, sticky)

\* a + b
Plus(a, b) ==
  CHOOSE v \in
    {Round(s, FALSE) :
       s \in {Norm(<< x[1][1] + x[2][1], x[1][2] + x[2][2],
                      x[1][3] + x[2][3], x[1][4] + x[2][4] >>) :
                x \in {<< a, b >>}}} : TRUE

\* a - b
Minus(a, b) ==
  CHOOSE v \in
    {Round(s, FALSE) :
       s \in {Norm(<< x[1][1] - x[2][1], x[1][2] - x[2][2],
                      x[1][3] - x[2][3], x[1][4] - x[2][4] >>) :
                x \in {<< a, b >>}}} : TRUE

\* m / n for m >= 0 and an integer 0 < n < 128, by long division
\* (a quotient of 53 bits or fewer above 2^-72 is cut at 2^-72: it keeps its
\* sign and, being cut to no less than 2^-72, its Math.floor)
DivMag(m, n) ==
  LET t2 == (m[1] % n) * Limb + m[2]
      t3 == (t2 % n) * Limb + m[3]
      t4 == (t3 % n) * Limb + m[4]
  IN CHOOSE v \in
       {RoundMag(q[1], q[2]) :
          q \in {<< << m[1] \div n, t2 \div n, t3 \div n, t4 \div n >>,
                    t4 % n # 0 >>}} : TRUE

\* a / n for an integer 0 < n < 128
Over(a, n) ==
  CHOOSE v \in
    {IF IsNeg(x)
     THEN CHOOSE w \in {Neg(u) : u \in {DivMag(m, n) : m \in {Neg(x)}}} : TRUE
     ELSE DivMag(x, n) : x \in {a}} : TRUE

\* a < b
Less(a, b) ==
  \E k \in 1 .. 4 : a[k] < b[k] /\ \A j \in 1 .. (k - 1) : a[j] = b[j]

\* CANVAS_HEIGHT / 2
CenterY == Over(FromInt(CANVAS_HEIGHT), 2)

\* twinId: undefined
NoTwin == -1

\* ------------------------------------------------------------------------
\* Bounds of the model
\* ------------------------------------------------------------------------
\* number of spawnParticle calls that create particles; a frame that would
\* emit past it is not taken (the user may pause instead)
MaxEmissions == 2
\* number of clicks / slider moves of the user in one run (a pause at the
\* emission bound is not counted)
MaxUserActions == 3

\* number of handleParticleLand calls in a run of the histogram alone
MaxLandings == 4

\* Constants of the sampler (SimulationCanvas.tsx) and the unit of
\* probabilities
Sigma == 80
PeakWidth == 1000
MaxIter == 100
FallbackWidth == 50
ProbUnit == 10000

\* Inputs drawn from small sets.
SlitDistances == {80, 120}
Wavelengths == {500, 700}
EmissionRates == {1, 5}
\* landing ordinates generateTargetY may return (pixels): the first call of
\* an emission, and the second call of an unobserved emission
FirstTargetYs == {120}
TargetYs == {120, 260}
\* requestAnimationFrame timestamp deltas, in ms
FrameDts == {16}
\* Math.random() results, in units of 1/ProbUnit: for the candidate y (0, 120,
\* 200, 260, 399 pixels), for the acceptance test, and for the fallback
YDraws == {0, 3000, 5000, 6500, 9975}
AcceptDraws == {0, 5000, 9999}
FallbackDraws == {0, 5000, 9800}
\* Math.random() results in the generateTargetY calls of a mounted engine: the
\* least candidate (0 pixels) and a large one (399 pixels), and one fallback
EdgeYDraws == {0, 9975}
EdgeFallbackDraws == {0}
\* slit distances the sampler is run under
SamplerSlitDistances == {40, 80}
\* configurations SimulationCanvas is mounted with when it is driven with
\* props no slider produces: 0 is outside the supported range
EngineSlitDistances == {0, DefaultSlitDistance}
EngineEmissionRates == {0, DefaultEmissionRate}
\* arguments of handleParticleLand: -0.5, 0, the largest double below
\* BIN_SIZE (5 - 2^-50), BIN_SIZE, the largest double below SCREEN_HEIGHT
\* (400 - 2^-44), SCREEN_HEIGHT
LandYs == {Neg(Over(FromInt(1), 2)), FromInt(0),
           << BIN_SIZE - 1, Limb - 1, Limb - 1, Limb - 2^22 >>,
           FromInt(BIN_SIZE),
           << SCREEN_HEIGHT - 1, Limb - 1, Limb - 2^4, 0 >>,
           FromInt(SCREEN_HEIGHT)}
\* The emission clock only ever compares a time difference with
\* 1000 / (emissionRate * 60) <= 1000/60 ms, so time differences are kept
\* exactly up to TimeCap and saturate there.
TimeCap == (FrameMs \div (FramesPerSecond * MinEmissionRate)) + 1

VARIABLES
  particles,          \* particlesRef.current : sequence of Particle records
  particleIdCounter,  \* particleIdCounter.current
  config,             \* App's config state
  isRunning,          \* App's isRunning state
  timestamp,          \* timestamp of the last animation frame (saturating)
  sinceSpawn,         \* timestamp - lastSpawnTime (saturating)
  loopAlive,          \* a requestAnimationFrame(loop) is pending
  histogram,          \* App's histogram state
  userActions,        \* number of user actions so far
  emitted,            \* history: emission log, one record per created particle
  hits,               \* history: particles that reached SCREEN_X
  crossings,          \* history: particles that reached SLIT_X
  emitClock,          \* history: time since the latest emission, and the
                      \* time between the two latest emissions
  resetAt,            \* history: Len(hits) when the histogram was last reset
  sampler             \* the locals of a generateTargetY call in progress

vars == << particles, particleIdCounter, config, isRunning, timestamp,
           sinceSpawn, loopAlive, histogram, userActions, emitted, hits,
           crossings, emitClock, resetAt, sampler >>

\* ------------------------------------------------------------------------
\* Helpers
\* ------------------------------------------------------------------------
Min(a, b) == IF a < b THEN a ELSE b

Sat(t) == Min(t, TimeCap)

\* Array.prototype.splice(i, 1) on a 1-based sequence
Splice(s, i) == [k \in 1 .. (Len(s) - 1) |-> IF k < i THEN s[k] ELSE s[k + 1]]

\* Array.prototype.findIndex(part => part.id === id): least index, 0 if none
FindIndex(s, id) ==
  IF \E k \in 1 .. Len(s) : s[k].id = id
  THEN CHOOSE k \in 1 .. Len(s) :
         /\ s[k].id = id
         /\ \A j \in 1 .. (k - 1) : s[j].id # id
  ELSE 0

Ids(s) == {s[k].id : k \in 1 .. Len(s)}

\* number of emissions so far: single particles, and the top one of each pair
EmissionCount ==
  Cardinality({k \in 1 .. Len(emitted) :
                 emitted[k].twinId = NoTwin \/ emitted[k].twinId > emitted[k].id})

\* slit centre for originSlit, at slit distance d
SlitY(originSlit, d) ==
  IF originSlit = "top" THEN Minus(CenterY, Over(FromInt(d), 2))
  ELSE Plus(CenterY, Over(FromInt(d), 2))

\* ------------------------------------------------------------------------
\* spawnParticle
\* ------------------------------------------------------------------------
\* variant: the flight time to the screen in place of the one to the slits
AimAtSlit_Mut(slitY) == Over(Minus(slitY, CenterY), TimeToHit(VX))

\* vy = dy / timeToSlit with dy = slitY - CANVAS_HEIGHT / 2
AimAtSlit(slitY) == Over(Minus(slitY, CenterY), TimeToSlit)

NewParticle(id, vy, targetY, originSlit, twinId) ==
  [ id |-> id, x |-> SOURCE_X, y |-> CenterY, vx |-> VX, vy |-> vy,
    targetY |-> FromInt(targetY), phase |-> "source-to-slit",
    originSlit |-> originSlit, twinId |-> twinId ]

\* observerActive: one particle aimed at the slit it has chosen
SpawnObserved(counter, cfg, originSlit, targetY) ==
  << NewParticle(counter, AimAtSlit(SlitY(originSlit, cfg.slitDistance)),
                 targetY, originSlit, NoTwin) >>

\* the targetY fields of the top and the bottom particle of a pair; the code
\* evaluates generateTargetY() once in each object literal
TwinTargets(t1, t2) == << t1, t2 >>

\* variant: the bottom particle is not linked back to the top one
SpawnTwins_Mut(baseId, cfg, t1, t2) ==
  << NewParticle(baseId, AimAtSlit(SlitY("top", cfg.slitDistance)),
                 t1, "top", baseId + 1),
     NewParticle(baseId + 1, AimAtSlit(SlitY("bottom", cfg.slitDistance)),
                 t2, "bottom", NoTwin) >>

\* detector off: a top and a bottom particle, linked by twinId
SpawnTwins(baseId, cfg, t1, t2) ==
  LET tt == TwinTargets(t1, t2) IN
  << NewParticle(baseId, AimAtSlit(SlitY("top", cfg.slitDistance)),
                 tt[1], "top", baseId + 1),
     NewParticle(baseId + 1, AimAtSlit(SlitY("bottom", cfg.slitDistance)),
                 tt[2], "bottom", baseId) >>

\* variant: spawnParticle without its early return
SpawnAllowed_Mut(running) == TRUE

\* if (!isRunning) return;
SpawnAllowed(running) == running

\* variant: the counter is advanced once per spawnParticle call
NextId_Mut(counter, new) == IF new = << >> THEN counter ELSE counter + 1

\* particleIdCounter.current after spawnParticle pushed the particles new:
\* particleIdCounter.current++ for one, particleIdCounter.current += 2 for twins
NextId(counter, new) == counter + Len(new)

\* the particles spawnParticle pushes; t1, t2 are the results of the calls of
\* generateTargetY, originSlit the outcome of Math.random() > 0.5
SpawnedParticles(running, counter, cfg, originSlit, t1, t2) ==
  IF ~SpawnAllowed(running) THEN << >>
  ELSE IF cfg.observerActive THEN SpawnObserved(counter, cfg, originSlit, t1)
  ELSE SpawnTwins(counter, cfg, t1, t2)

\* ------------------------------------------------------------------------
\* updateParticles
\* ------------------------------------------------------------------------
\* variant: the flight time to the slits in place of the one to the screen
AimAtTarget_Mut(targetY, y, vx) == Over(Minus(targetY, y), TimeToSlit)

\* p.vy = dy / timeToHit with dy = p.targetY - p.y
AimAtTarget(targetY, y, vx) == Over(Minus(targetY, y), TimeToHit(vx))

\* variant: the particle keeps the y its flight from the source gave it
SnapY_Mut(p, cfg) == p.y

\* y after the snap to the slit centre
SnapY(p, cfg) ==
  IF p.originSlit = "top" THEN SlitY("top", cfg.slitDistance)
  ELSE IF p.originSlit = "bottom" THEN SlitY("bottom", cfg.slitDistance)
  ELSE p.y

\* variant: the step also puts the particle back in its first phase
Advance_Mut(p) ==
  [p EXCEPT !.x = p.x + p.vx, !.y = Plus(p.y, p.vy),
            !.phase = "source-to-slit"]

\* x += vx; y += vy
Advance(p) == [p EXCEPT !.x = p.x + p.vx, !.y = Plus(p.y, p.vy)]

\* variant: the third phase of the Particle type
PhaseAtSlit_Mut == "landed"

\* the phase a source-to-slit particle is given at the slit
PhaseAtSlit == "slit-to-screen"

\* variant: the particle has to be past SLIT_X
ReachedSlit_Mut(x) == x > SLIT_X

\* if (p.x >= SLIT_X)
ReachedSlit(x) == x >= SLIT_X

\* variant: at the slit the particle is re-targeted to fly straight on
StepToSlit_Mut(p, cfg) ==
  CHOOSE r \in
    {IF ReachedSlit(q.x)
     THEN LET y1 == SnapY(q, cfg) IN
          [q EXCEPT !.phase = PhaseAtSlit, !.y = y1, !.vy = FromInt(0),
                    !.targetY = y1]
     ELSE q : q \in {Advance(p)}} : TRUE

\* branch p.phase === 'source-to-slit'
StepToSlit(p, cfg) ==
  CHOOSE r \in
    {IF ReachedSlit(q.x)
     THEN LET y1 == SnapY(q, cfg) IN
          [q EXCEPT !.phase = PhaseAtSlit, !.y = y1,
                    !.vy = AimAtTarget(q.targetY, y1, q.vx)]
     ELSE q : q \in {Advance(p)}} : TRUE

\* variant: every particle that hits the screen is reported
Counts_Mut(p, cfg) == TRUE

\* whether a particle that hit the screen is reported to onParticleLand
Counts(p, cfg) ==
  IF ~cfg.observerActive THEN p.id % 2 = 0 ELSE TRUE

\* variant: the landed particle is removed, its twin is not
RemoveLanded_Mut(ps, i) == Splice(ps, i)

\* particles.splice(i, 1), then the twin found by findIndex is spliced out
RemoveLanded(ps, i) ==
  LET p == ps[i]
      ps1 == Splice(ps, i)
  IN IF p.twinId # NoTwin
     THEN LET twinIndex == FindIndex(ps1, p.twinId) IN
          IF twinIndex # 0 THEN Splice(ps1, twinIndex) ELSE ps1
     ELSE ps1

\* One iteration of the loop  for (i = particles.length - 1; i >= 0; i--)
\* at index i (1-based), followed by the rest of the loop.  Reading
\* particles[i] past the end of the array yields undefined, and p.phase then
\* throws a TypeError.
RECURSIVE UpdateFrom(_, _, _, _, _)
RECURSIVE UpdateAt(_, _, _, _, _)
UpdateAt(ps, i, hs, cs, cfg) ==
  IF i < 1
  THEN [particles |-> ps, hits |-> hs, crossings |-> cs, threw |-> FALSE]
  ELSE IF i > Len(ps)
  THEN [particles |-> ps, hits |-> hs, crossings |-> cs, threw |-> TRUE]
  ELSE
    LET p == ps[i] IN
    IF p.phase = "source-to-slit"
    THEN CHOOSE r \in
           {UpdateFrom([ps EXCEPT ![i] = q], i - 1, hs,
                       IF q.phase # p.phase
                       THEN Append(cs, [id |-> p.id, x |-> q.x,
                                        yBefore |-> Plus(p.y, p.vy),
                                        yAfter |-> q.y,
                                        vy |-> q.vy, vx |-> q.vx,
                                        from |-> p.phase, to |-> q.phase,
                                        slitDistance |-> cfg.slitDistance])
                       ELSE cs,
                       cfg) : q \in {StepToSlit(p, cfg)}} : TRUE
    ELSE IF p.phase = "slit-to-screen"
    THEN CHOOSE r \in
           {IF q.x >= SCREEN_X
            THEN UpdateFrom(RemoveLanded([ps EXCEPT ![i] = q], i), i - 1,
                            Append(hs, [id |-> q.id, x |-> q.x, y |-> q.y,
                                        twinId |-> q.twinId,
                                        counted |-> Counts(q, cfg),
                                        observer |-> cfg.observerActive]),
                            cs, cfg)
            ELSE UpdateFrom([ps EXCEPT ![i] = q], i - 1, hs, cs, cfg) :
              q \in {Advance(p)}} : TRUE
    ELSE UpdateFrom(ps, i - 1, hs, cs, cfg)

\* The loop from index i on, with the array, the landings and the phase
\* changes so far; each of them is evaluated once per iteration.
UpdateFrom(ps, i, hs, cs, cfg) ==
  CHOOSE r \in {UpdateAt(a[1], a[2], a[3], a[4], cfg) :
                  a \in {<< ps, i, hs, cs >>}} : TRUE

UpdateParticles(ps, cfg) == UpdateFrom(ps, Len(ps), << >>, << >>, cfg)

\* ------------------------------------------------------------------------
\* App: the histogram
\* ------------------------------------------------------------------------
EmptyHistogram == [b \in 0 .. (NUM_BINS - 1) |-> 0]

\* variant: Math.round in place of Math.floor
HandleParticleLand_Mut(h, y) ==
  LET binIndex == Floor(Plus(Over(y, BIN_SIZE), Over(FromInt(1), 2))) IN
  IF binIndex >= 0 /\ binIndex < NUM_BINS
  THEN [h EXCEPT ![binIndex] = h[binIndex] + 1]
  ELSE h

\* handleParticleLand(y)
HandleParticleLand(h, y) ==
  LET binIndex == Floor(Over(y, BIN_SIZE)) IN
  IF binIndex >= 0 /\ binIndex < NUM_BINS
  THEN [h EXCEPT ![binIndex] = h[binIndex] + 1]
  ELSE h

\* the onParticleLand calls of one updateParticles, in order
RECURSIVE LandAll(_, _)
LandAll(h, hs) ==
  IF hs = << >> THEN h
  ELSE LandAll(IF Head(hs).counted THEN HandleParticleLand(h, Head(hs).y) ELSE h,
               Tail(hs))

\* ------------------------------------------------------------------------
\* getProbabilityAtY
\* ------------------------------------------------------------------------
\* Probabilities and Math.random() results are kept as integers in units of
\* 1/ProbUnit.  Math.exp is transcendental: exp(-x) is enclosed between a
\* lower and an upper bound, from the Taylor sums 1 - x + x^2/2 - x^3/6 <=
\* exp(-x) <= 1 - x + x^2/2 (x >= 0), rounded outwards, and
\* exp(-x) = exp(-x/2)^2 for x > 1.
CeilDiv(a, b) == -((-a) \div b)

Max(a, b) == IF a > b THEN a ELSE b

\* lower bound of exp(-x / ProbUnit), for 0 <= x <= ProbUnit
ExpLowerSmall(x) ==
  LET x2 == (x * x) \div ProbUnit
      x3 == CeilDiv(CeilDiv(x * x, ProbUnit) * x, ProbUnit)
  IN Max(0, ProbUnit - x + (x2 \div 2) - CeilDiv(x3, 6))

\* upper bound of exp(-x / ProbUnit), for 0 <= x <= ProbUnit
ExpUpperSmall(x) == ProbUnit - x + CeilDiv(CeilDiv(x * x, ProbUnit), 2)

RECURSIVE ExpLower(_)
ExpLower(x) ==
  IF x <= ProbUnit THEN ExpLowerSmall(x)
  ELSE CHOOSE r \in {(h * h) \div ProbUnit : h \in {ExpLower(CeilDiv(x, 2))}} : TRUE

RECURSIVE ExpUpper(_)
ExpUpper(x) ==
  IF x <= ProbUnit THEN ExpUpperSmall(x)
  ELSE CHOOSE r \in {CeilDiv(h * h, ProbUnit) : h \in {ExpUpper(x \div 2)}} : TRUE

\* relativeY = y - CANVAS_HEIGHT / 2
RelativeY(y) == y - CANVAS_HEIGHT \div 2

\* envelope = Math.exp(-(relativeY * relativeY) / (2 * sigma * sigma))
EnvelopeLower(y) ==
  ExpLower(CeilDiv(RelativeY(y) * RelativeY(y) * ProbUnit, 2 * Sigma * Sigma))

EnvelopeUpper(y) ==
  ExpUpper((RelativeY(y) * RelativeY(y) * ProbUnit) \div (2 * Sigma * Sigma))

\* Math.exp(-Math.pow(relativeY -+ slitDist/2, 2) / 1000), with
\* off = -slitDist for topPeak and +slitDist for botPeak:
\* (relativeY + off/2)^2 / 1000 = (2 relativeY + off)^2 / 4000
PeakLower(y, off) ==
  ExpLower(CeilDiv((2 * RelativeY(y) + off) * (2 * RelativeY(y) + off)
                     * (ProbUnit \div PeakWidth), 4))

PeakUpper(y, off) ==
  ExpUpper(((2 * RelativeY(y) + off) * (2 * RelativeY(y) + off)
              * (ProbUnit \div PeakWidth)) \div 4)

\* Math.pow(Math.cos(phase), 2): 1 where phase = 0, else only known to lie
\* in [0, 1]
Cos2Lower(y, slitDist, lambda) ==
  IF slitDist * RelativeY(y) = 0 /\ lambda > 0 THEN ProbUnit ELSE 0

Cos2Upper(y, slitDist, lambda) == ProbUnit

\* getProbabilityAtY(y, slitDist, lambda, observer), from below
DensityLower(y, slitDist, lambda, observer) ==
  IF observer
  THEN ((PeakLower(y, -slitDist) + PeakLower(y, slitDist))
          * EnvelopeLower(y)) \div ProbUnit
  ELSE (Cos2Lower(y, slitDist, lambda) * EnvelopeLower(y)) \div ProbUnit

\* getProbabilityAtY(y, slitDist, lambda, observer), from above
DensityUpper(y, slitDist, lambda, observer) ==
  IF observer
  THEN CeilDiv((PeakUpper(y, -slitDist) + PeakUpper(y, slitDist))
                 * EnvelopeUpper(y), ProbUnit)
  ELSE CeilDiv(Cos2Upper(y, slitDist, lambda) * EnvelopeUpper(y), ProbUnit)

\* ------------------------------------------------------------------------
\* generateTargetY
\* ------------------------------------------------------------------------
\* variant: the candidate is centred on 0
CandidateY_Mut(n) == (n * CANVAS_HEIGHT) \div ProbUnit - CANVAS_HEIGHT \div 2

\* y = Math.random() * CANVAS_HEIGHT, for Math.random() = n / ProbUnit
CandidateY(n) == (n * CANVAS_HEIGHT) \div ProbUnit

\* CANVAS_HEIGHT / 2 + (Math.random() - 0.5) * 50
Fallback(n) ==
  CANVAS_HEIGHT \div 2 + ((n - ProbUnit \div 2) * FallbackWidth) \div ProbUnit

\* variant: the loop runs while maxIter >= 0
KeepSampling_Mut(maxIter) == maxIter >= 0

\* while (maxIter > 0)
KeepSampling(maxIter) == maxIter > 0

\* whether Math.random() = u / ProbUnit < prob can be true, can be false
MayAccept(u, y, cfg) ==
  u < DensityUpper(y, cfg.slitDistance, cfg.wavelength, cfg.observerActive)

MayReject(u, y, cfg) ==
  u >= DensityLower(y, cfg.slitDistance, cfg.wavelength, cfg.observerActive)

\* the locals at the top of the do-while loop
SamplerStart == [status |-> "loop", maxIter |-> MaxIter, y |-> 0, attempts |-> 0]

\* no generateTargetY call in progress
SamplerIdle == [status |-> "idle", maxIter |-> 0, y |-> 0, attempts |-> 0]

\* ------------------------------------------------------------------------
\* The animation loop
\* ------------------------------------------------------------------------
\* timestamp - lastSpawnTime > 1000 / (config.emissionRate * 60)
GateOpen(elapsed, rate) == elapsed * (rate * FramesPerSecond) > FrameMs

\* the emission-log entry of a created particle
EmissionRecord(p, cfg, n) ==
  [ id |-> p.id, x |-> p.x, y |-> p.y, vx |-> p.vx, vy |-> p.vy,
    targetY |-> p.targetY, phase |-> p.phase, originSlit |-> p.originSlit,
    twinId |-> p.twinId, emission |-> n,
    slitDistance |-> cfg.slitDistance, observer |-> cfg.observerActive ]

EmissionRecords(new, cfg, n) ==
  [k \in 1 .. Len(new) |-> EmissionRecord(new[k], cfg, n)]

\* One frame: the gate, spawnParticle, lastSpawnTime = timestamp, then
\* updateParticles.  An exception in updateParticles leaves the frame before
\* requestAnimationFrame(loop) is called again.
Frame(dt, originSlit, t1, t2) ==
  LET now == Sat(timestamp + dt)
      elapsed == Sat(sinceSpawn + dt)
      gate == GateOpen(elapsed, config.emissionRate)
      since == IF emitClock.since = -1 THEN -1 ELSE Sat(emitClock.since + dt)
  IN \E new \in {IF gate
                 THEN SpawnedParticles(isRunning, particleIdCounter, config,
                                       originSlit, t1, t2)
                 ELSE << >>} :
     \E r \in {UpdateParticles(particles \o new, config)} :
     /\ (new # << >> => EmissionCount < MaxEmissions)
     /\ timestamp' = now
     /\ sinceSpawn' = IF gate THEN 0 ELSE elapsed
     /\ particleIdCounter' = NextId(particleIdCounter, new)
     /\ emitted' = emitted \o EmissionRecords(new, config, EmissionCount + 1)
     /\ emitClock' = IF new # << >>
                     THEN [since |-> 0, gap |-> since,
                           rate |-> config.emissionRate]
                     ELSE [emitClock EXCEPT !.since = since]
     /\ particles' = r.particles
     /\ hits' = hits \o r.hits
     /\ crossings' = crossings \o r.crossings
     /\ histogram' = LandAll(histogram, r.hits)
     /\ loopAlive' = ~r.threw
     /\ UNCHANGED << config, isRunning, userActions, resetAt, sampler >>

\* loop(timestamp), with the first generateTargetY() of an emission returning
\* a value of firsts and the second one a value of seconds
Loop(firsts, seconds) ==
  /\ loopAlive
  /\ \E dt \in FrameDts :
       IF isRunning /\ GateOpen(Sat(sinceSpawn + dt), config.emissionRate)
       THEN IF config.observerActive
            THEN \E originSlit \in {"top", "bottom"}, t \in firsts :
                   Frame(dt, originSlit, t, t)
            ELSE \E t1 \in firsts, t2 \in seconds :
                   Frame(dt, "top", t1, t2)
       ELSE Frame(dt, "top", 0, 0)

Tick == Loop(FirstTargetYs, TargetYs)

\* ------------------------------------------------------------------------
\* User actions (Controls.tsx) and the effects they trigger
\* ------------------------------------------------------------------------
\* A new config object or a new isRunning gives new spawnParticle /
\* updateParticles / draw callbacks, so the animation effect is cleaned up
\* and run again:  let lastSpawnTime = 0;  requestAnimationFrame(loop).
EffectRestart ==
  /\ sinceSpawn' = timestamp
  /\ loopAlive' = TRUE

\* what every user action leaves alone
UserFrame ==
  UNCHANGED << particles, particleIdCounter, timestamp, emitted, hits,
               crossings, emitClock, sampler >>

UserAction ==
  /\ UserFrame
  /\ userActions < MaxUserActions
  /\ userActions' = userActions + 1

\* onClick={() => setIsRunning(!isRunning)}
ToggleRunning ==
  /\ UserFrame
  /\ IF isRunning /\ EmissionCount >= MaxEmissions
     THEN userActions' = userActions
     ELSE userActions < MaxUserActions /\ userActions' = userActions + 1
  /\ isRunning' = ~isRunning
  /\ EffectRestart
  /\ UNCHANGED << config, histogram, resetAt >>

\* handleChange('observerActive', !config.observerActive); App's effect on
\* config.observerActive calls handleReset
ToggleObserver ==
  /\ UserAction
  /\ config' = [config EXCEPT !.observerActive = ~config.observerActive]
  /\ histogram' = EmptyHistogram
  /\ resetAt' = Len(hits)
  /\ EffectRestart
  /\ UNCHANGED isRunning

\* handleChange('slitDistance', d)
SetSlitDistance ==
  /\ UserAction
  /\ \E d \in SlitDistances \ {config.slitDistance} :
       config' = [config EXCEPT !.slitDistance = d]
  /\ histogram' = EmptyHistogram
  /\ resetAt' = Len(hits)
  /\ EffectRestart
  /\ UNCHANGED isRunning

\* variant: config.wavelength is missing from the dependencies of App's effect
SetWavelength_Mut ==
  /\ UserAction
  /\ \E w \in Wavelengths \ {config.wavelength} :
       config' = [config EXCEPT !.wavelength = w]
  /\ EffectRestart
  /\ UNCHANGED << isRunning, histogram, resetAt >>

\* handleChange('wavelength', w)
SetWavelength ==
  /\ UserAction
  /\ \E w \in Wavelengths \ {config.wavelength} :
       config' = [config EXCEPT !.wavelength = w]
  /\ histogram' = EmptyHistogram
  /\ resetAt' = Len(hits)
  /\ EffectRestart
  /\ UNCHANGED isRunning

\* handleChange('emissionRate', r)
SetEmissionRate ==
  /\ UserAction
  /\ \E r \in EmissionRates \ {config.emissionRate} :
       config' = [config EXCEPT !.emissionRate = r]
  /\ EffectRestart
  /\ UNCHANGED << isRunning, histogram, resetAt >>

\* handleChange('showWaves', e.target.checked)
ToggleShowWaves ==
  /\ UserAction
  /\ config' = [config EXCEPT !.showWaves = ~config.showWaves]
  /\ EffectRestart
  /\ UNCHANGED << isRunning, histogram, resetAt >>

\* onClick={onReset}
Reset ==
  /\ UserAction
  /\ histogram' = EmptyHistogram
  /\ resetAt' = Len(hits)
  /\ UNCHANGED << config, isRunning, sinceSpawn, loopAlive >>

Init ==
  /\ particles = << >>
  /\ particleIdCounter = 0
  /\ config = [ wavelength |-> DefaultWavelength,
                slitDistance |-> DefaultSlitDistance,
                observerActive |-> FALSE,
                emissionRate |-> DefaultEmissionRate,
                showWaves |-> TRUE ]
  /\ isRunning = FALSE
  /\ timestamp = 0
  /\ sinceSpawn = 0
  /\ loopAlive = TRUE
  /\ histogram = EmptyHistogram
  /\ userActions = 0
  /\ emitted = << >>
  /\ hits = << >>
  /\ crossings = << >>
  /\ emitClock = [since |-> -1, gap |-> -1, rate |-> 0]
  /\ resetAt = 0
  /\ sampler = SamplerIdle

Next ==
  \/ Tick
  \/ ToggleRunning
  \/ ToggleObserver
  \/ SetSlitDistance
  \/ SetWavelength
  \/ SetEmissionRate
  \/ ToggleShowWaves
  \/ Reset

Spec == Init /\ [][Next]_vars

\* The browser keeps delivering animation frames while a frame is requested.
FairSpec == Spec /\ WF_vars(Tick)

\* ------------------------------------------------------------------------
\* App's histogram alone: handleParticleLand called with any y, and onReset
\* ------------------------------------------------------------------------
\* one call handleParticleLand(y); hits logs the call
Land ==
  /\ Len(hits) < MaxLandings
  /\ \E y \in LandYs :
       /\ histogram' = HandleParticleLand(histogram, y)
       /\ hits' = Append(hits, [id |-> Len(hits), x |-> SCREEN_X, y |-> y,
                                twinId |-> NoTwin, counted |-> TRUE,
                                observer |-> config.observerActive])
  /\ UNCHANGED << particles, particleIdCounter, config, isRunning, timestamp,
                  sinceSpawn, loopAlive, userActions, emitted, crossings,
                  emitClock, resetAt, sampler >>

SinkNext ==
  \/ Land
  \/ Reset

SinkSpec == Init /\ [][SinkNext]_vars

\* ------------------------------------------------------------------------
\* SimulationCanvas alone, mounted running with any configuration as props
\* ------------------------------------------------------------------------
EngineInit ==
  /\ particles = << >>
  /\ particleIdCounter = 0
  /\ \E d \in EngineSlitDistances, r \in EngineEmissionRates, o \in BOOLEAN :
       config = [ wavelength |-> DefaultWavelength, slitDistance |-> d,
                  observerActive |-> o, emissionRate |-> r,
                  showWaves |-> TRUE ]
  /\ isRunning = TRUE
  /\ timestamp = 0
  /\ sinceSpawn = 0
  /\ loopAlive = TRUE
  /\ histogram = EmptyHistogram
  /\ userActions = 0
  /\ emitted = << >>
  /\ hits = << >>
  /\ crossings = << >>
  /\ emitClock = [since |-> -1, gap |-> -1, rate |-> 0]
  /\ resetAt = 0
  /\ sampler = SamplerIdle

EngineNext ==
  \/ Tick
  \/ ToggleRunning

EngineSpec == EngineInit /\ [][EngineNext]_vars

\* ------------------------------------------------------------------------
\* One generateTargetY call alone, under any supported configuration
\* ------------------------------------------------------------------------
SamplerFrame ==
  UNCHANGED << particles, particleIdCounter, config, isRunning, timestamp,
               sinceSpawn, loopAlive, histogram, userActions, emitted, hits,
               crossings, emitClock, resetAt >>

\* one iteration of the do-while loop
SamplerAttempt ==
  /\ sampler.status = "loop"
  /\ \E n \in YDraws, u \in AcceptDraws :
       LET y == CandidateY(n) IN
       \/ /\ MayAccept(u, y, config)
          /\ sampler' = [sampler EXCEPT !.status = "accepted", !.y = y,
                                        !.attempts = sampler.attempts + 1]
       \/ /\ MayReject(u, y, config)
          /\ sampler' = [status |-> IF KeepSampling(sampler.maxIter - 1)
                                    THEN "loop" ELSE "exhausted",
                         maxIter |-> sampler.maxIter - 1, y |-> y,
                         attempts |-> sampler.attempts + 1]
  /\ SamplerFrame

\* the return after the loop
SamplerFallback ==
  /\ sampler.status = "exhausted"
  /\ \E n \in FallbackDraws :
       sampler' = [sampler EXCEPT !.status = "fallback", !.y = Fallback(n)]
  /\ SamplerFrame

SamplerInit ==
  /\ particles = << >>
  /\ particleIdCounter = 0
  /\ \E d \in SamplerSlitDistances, o \in BOOLEAN :
       config = [ wavelength |-> DefaultWavelength, slitDistance |-> d,
                  observerActive |-> o, emissionRate |-> DefaultEmissionRate,
                  showWaves |-> TRUE ]
  /\ isRunning = TRUE
  /\ timestamp = 0
  /\ sinceSpawn = 0
  /\ loopAlive = TRUE
  /\ histogram = EmptyHistogram
  /\ userActions = 0
  /\ emitted = << >>
  /\ hits = << >>
  /\ crossings = << >>
  /\ emitClock = [since |-> -1, gap |-> -1, rate |-> 0]
  /\ resetAt = 0
  /\ sampler = SamplerStart

SamplerNext ==
  \/ SamplerAttempt
  \/ SamplerFallback

SamplerSpec == SamplerInit /\ [][SamplerNext]_vars

\* ------------------------------------------------------------------------
\* SimulationCanvas mounted running under any supported configuration, its
\* targets being what generateTargetY returns
\* ------------------------------------------------------------------------
\* the values a generateTargetY call can return under cfg: a candidate the
\* rejection check can accept, or the fallback when every attempt can be
\* rejected
SampledYs(cfg) ==
  {CandidateY(n) :
     n \in {m \in EdgeYDraws :
              \E u \in AcceptDraws : MayAccept(u, CandidateY(m), cfg)}}
  \cup
  {Fallback(n) :
     n \in {m \in EdgeFallbackDraws :
              \E k \in YDraws, u \in AcceptDraws :
                MayReject(u, CandidateY(k), cfg)}}

SampledTick == Loop(SampledYs(config), SampledYs(config))

SampledInit ==
  /\ particles = << >>
  /\ particleIdCounter = 0
  /\ \E d \in SlitDistances, o \in BOOLEAN :
       config = [ wavelength |-> DefaultWavelength, slitDistance |-> d,
                  observerActive |-> o, emissionRate |-> DefaultEmissionRate,
                  showWaves |-> TRUE ]
  /\ isRunning = TRUE
  /\ timestamp = 0
  /\ sinceSpawn = 0
  /\ loopAlive = TRUE
  /\ histogram = EmptyHistogram
  /\ userActions = 0
  /\ emitted = << >>
  /\ hits = << >>
  /\ crossings = << >>
  /\ emitClock = [since |-> -1, gap |-> -1, rate |-> 0]
  /\ resetAt = 0
  /\ sampler = SamplerIdle

\* the user pauses the simulation, and does not resume it
Pause == isRunning /\ ToggleRunning

SampledNext ==
  \/ SampledTick
  \/ Pause

SampledSpec == SampledInit /\ [][SampledNext]_vars

\* ------------------------------------------------------------------------
\* Model sanity: every number of the run is a double of the range the model
\* represents: 53 significant bits, and zero or at least 2^-19 in magnitude
\* ------------------------------------------------------------------------
IsDouble(d) ==
  /\ d = Norm(d)
  /\ d = Round(d, FALSE)
  /\ -(2^22) <= d[1] /\ d[1] < 2^22
  /\ d = FromInt(0) \/ BitLength(IF IsNeg(d) THEN Neg(d) ELSE d) > MantissaBits

NumbersInRange ==
  \A p \in {particles[k] : k \in 1 .. Len(particles)} :
    IsDouble(p.y) /\ IsDouble(p.vy) /\ IsDouble(p.targetY)

\* ------------------------------------------------------------------------
\* Claims
\* ------------------------------------------------------------------------
\* floor(y / BIN_SIZE) of the real number y
BinOf(y) == Floor(y) \div BIN_SIZE

\* 2^-32, the tolerance on vertical positions
Tolerance == << 0, 0, 2^16, 0 >>

\* |a - b| < Tolerance, the difference taken without rounding
Near(a, b) ==
  \A d \in {Norm(<< a[1] - b[1], a[2] - b[2], a[3] - b[3], a[4] - b[4] >>)} :
    Less(IF IsNeg(d) THEN Neg(d) ELSE d, Tolerance)

\* a + b, a - b and n * a of the real numbers, without rounding
ExactPlus(a, b) ==
  Norm(<< a[1] + b[1], a[2] + b[2], a[3] + b[3], a[4] + b[4] >>)

ExactMinus(a, b) ==
  Norm(<< a[1] - b[1], a[2] - b[2], a[3] - b[3], a[4] - b[4] >>)

ExactTimes(a, n) == Norm(<< a[1] * n, a[2] * n, a[3] * n, a[4] * n >>)

\* 0 <= y <= CANVAS_HEIGHT
InCanvas(y) == ~IsNeg(y) /\ ~Less(FromInt(CANVAS_HEIGHT), y)

EmittedRecords == {emitted[k] : k \in 1 .. Len(emitted)}
HitRecords == {hits[k] : k \in 1 .. Len(hits)}
CrossingRecords == {crossings[k] : k \in 1 .. Len(crossings)}
StoredParticles == {particles[k] : k \in 1 .. Len(particles)}

\* the emission-log entry of the particle with this id
EmittedOf(id) == CHOOSE e \in EmittedRecords : e.id = id

\* number of onParticleLand calls so far
LandCalls == Cardinality({k \in 1 .. Len(hits) : hits[k].counted})

\* the detector has been off at every emission and every landing so far
UnobservedRun ==
  /\ ~config.observerActive
  /\ \A e \in EmittedRecords : ~e.observer
  /\ \A h \in HitRecords : ~h.observer

\* C1 (twin accounting): with the detector off for the whole run, once N >= 1
\* pairs have been emitted and all their particles have left the store,
\* onParticleLand has been called exactly N times.
C1_TwinAccounting ==
  (UnobservedRun /\ EmissionCount >= 1 /\ particles = << >>)
    => LandCalls = EmissionCount

\* C2 (twin cleanup): once a particle with a twinId has reached SCREEN_X,
\* neither it nor its twin is in the store at the end of that updateParticles
\* call, and at most one member of a pair ever causes an onParticleLand call.
C2_TwinCleanup ==
  \A h \in HitRecords :
    h.twinId # NoTwin =>
      /\ h.id \notin Ids(particles)
      /\ h.twinId \notin Ids(particles)
      /\ \A g \in HitRecords : g.id = h.twinId => ~(g.counted /\ h.counted)

\* C2 witness: the top particle of a pair has landed and been counted while
\* its twin was still on its way, behind it.
C2_Witness ==
  \E h \in HitRecords :
    /\ h.twinId # NoTwin /\ h.id < h.twinId /\ h.counted
    /\ h.twinId \notin Ids(particles)
    /\ \A g \in HitRecords : g.id # h.twinId

\* the number of times  p.y += p.vy  ran between the phase change c at the
\* slits and the landing h
AdvancesToScreen(c, h) == (h.x - c.x) \div c.vx

\* timeToHit times the y that the snap, the aim  vy = (targetY - y) / timeToHit
\* and these advances give in exact arithmetic:
\*   y + advances * (targetY - y) / timeToHit
ExactLandingTimes(c, h, targetY) ==
  ExactPlus(ExactTimes(c.yAfter, TimeToHit(c.vx)),
            ExactTimes(ExactMinus(targetY, c.yAfter), AdvancesToScreen(c, h)))

\* C3 (kinematic exactness): for every onParticleLand(y) call, the y that the
\* particle's snap at the slits, its aim and its advances give in exact
\* arithmetic equals the targetY it was given at emission, whatever the slit
\* distance was at emission and at the slits; the doubles the code computes,
\* the vy set at the slits and the y passed, differ from the exact ones by
\* rounding only (by less than 2^-32).
C3_KinematicExactness ==
  \A h \in HitRecords :
    h.counted =>
      /\ \E c \in CrossingRecords : c.id = h.id
      /\ \A c \in CrossingRecords :
           c.id = h.id =>
             /\ ExactLandingTimes(c, h, EmittedOf(h.id).targetY)
                  = ExactTimes(EmittedOf(h.id).targetY, TimeToHit(c.vx))
             /\ Near(ExactTimes(c.vy, TimeToHit(c.vx)),
                     ExactMinus(EmittedOf(h.id).targetY, c.yAfter))
      /\ Near(h.y, EmittedOf(h.id).targetY)

\* C3 witness: a counted landing of a particle that crossed the slits under a
\* slit distance other than the one it was emitted under.
C3_Witness ==
  \E h \in HitRecords :
    /\ h.counted
    /\ \E c \in CrossingRecords :
         c.id = h.id /\ c.slitDistance # EmittedOf(h.id).slitDistance

\* C4 (lifecycle closure): if from some frame on the simulation stays paused
\* and frames keep coming, the store eventually becomes empty and stays so.
C4_LifecycleClosure == <>[](~isRunning) => <>[](particles = << >>)

\* C4 witness: particles were emitted, the simulation is paused, and every
\* particle has left the store.
C4_Witness ==
  /\ ~isRunning /\ particles = << >> /\ Len(emitted) >= 3 /\ loopAlive

\* C5 (emission spacing): two consecutive emissions are never separated by
\* 1 / emissionRate or less (in frames of 1/60 s, the unit of the code's gate
\* 1000 / (emissionRate * 60) ms).
C5_EmissionSpacing ==
  emitClock.gap # -1 =>
    emitClock.gap * (emitClock.rate * FramesPerSecond) > FrameMs

\* C6 (running gate): a frame taken while isRunning is false adds no particle
\* to the store and leaves the id counter unchanged.
C6_RunningGate ==
  [][~isRunning =>
       /\ particleIdCounter' = particleIdCounter
       /\ Ids(particles') \subseteq Ids(particles)
       /\ emitted' = emitted]_vars

\* C6 witness: a frame whose emission gate was open has just been taken
\* while the simulation was paused with particles in flight.
C6_Witness ==
  /\ ~isRunning /\ timestamp > 0 /\ sinceSpawn = 0 /\ particles # << >>

\* C7 (shared twin target): any two particles in the store that are
\* twin-linked to each other have the same targetY.
C7_SharedTwinTarget ==
  \A p \in StoredParticles, q \in StoredParticles :
    (p.twinId = q.id /\ q.twinId = p.id) => p.targetY = q.targetY

\* every particle in the store with a twinId has its twin in the store,
\* linked back to it
TwinsLinked ==
  \A p \in StoredParticles :
    p.twinId # NoTwin =>
      \E q \in StoredParticles : q.id = p.twinId /\ q.twinId = p.id

\* an unobserved emission adds exactly two particles, a top and a bottom one
EmitsPair ==
  (Len(emitted') > Len(emitted) /\ ~config.observerActive) =>
    LET new == {p \in {particles'[k] : k \in 1 .. Len(particles')} :
                  p.id \notin Ids(particles)}
    IN /\ Cardinality(new) = 2
       /\ {p.originSlit : p \in new} = {"top", "bottom"}
       /\ Len(emitted') = Len(emitted) + 2

\* C8 (twin linkage, atomic insertion): an unobserved emission adds exactly
\* two particles in one step, one top and one bottom, and at every frame
\* boundary no twin is in the store without its partner.
C8_TwinLinkage == []TwinsLinked /\ [][EmitsPair]_vars

\* C8 witness: a linked pair is in the store with its two members at
\* different positions.
C8_Witness ==
  \E p \in StoredParticles, q \in StoredParticles :
    p.twinId = q.id /\ q.twinId = p.id /\ p.x # q.x

\* C9 (observed-mode emission): an emission with the detector on creates one
\* particle, with no twin, aimed at the top or bottom slit from
\* (SOURCE_X, CANVAS_HEIGHT / 2) with vx = 4, and if the slit distance at the
\* slits is the one at emission, its y when x reaches SLIT_X, before the snap,
\* is the centre of its slit.
C9_ObservedEmission ==
  \A e \in EmittedRecords :
    e.observer =>
      /\ e.twinId = NoTwin
      /\ \A f \in EmittedRecords : f.emission = e.emission => f = e
      /\ e.originSlit \in {"top", "bottom"}
      /\ e.x = SOURCE_X /\ e.y = CenterY /\ e.vx = VX
      /\ \A c \in CrossingRecords :
           (c.id = e.id /\ c.slitDistance = e.slitDistance) =>
             /\ c.x = SLIT_X
             /\ c.yBefore = SlitY(e.originSlit, e.slitDistance)

\* C9, amended: the same, with the y reached at the slits before the snap
\* within 2^-32 of the centre of the slit.
C9_ObservedEmissionTolerance ==
  \A e \in EmittedRecords :
    e.observer =>
      /\ e.twinId = NoTwin
      /\ \A f \in EmittedRecords : f.emission = e.emission => f = e
      /\ e.originSlit \in {"top", "bottom"}
      /\ e.x = SOURCE_X /\ e.y = CenterY /\ e.vx = VX
      /\ \A c \in CrossingRecords :
           (c.id = e.id /\ c.slitDistance = e.slitDistance) =>
             /\ c.x = SLIT_X
             /\ Near(c.yBefore, SlitY(e.originSlit, e.slitDistance))

\* C9 witness: a particle emitted with the detector on towards the bottom
\* slit has reached the slits under the slit distance it was emitted under.
C9_Witness ==
  \E e \in EmittedRecords, c \in CrossingRecords :
    /\ e.observer /\ e.originSlit = "bottom"
    /\ c.id = e.id /\ c.slitDistance = e.slitDistance

\* number of phase changes a particle has gone through
PhaseChanges(id) == Cardinality({k \in 1 .. Len(crossings) : crossings[k].id = id})

\* C10 (phase monotonicity): a particle is created in source-to-slit, changes
\* phase once, to slit-to-screen, before it lands, and is never in another
\* phase nor back in source-to-slit.
C10_PhaseMonotonicity ==
  /\ \A e \in EmittedRecords : e.phase = "source-to-slit"
  /\ \A c \in CrossingRecords :
       c.from = "source-to-slit" /\ c.to = "slit-to-screen"
  /\ \A p \in StoredParticles :
       \/ p.phase = "source-to-slit" /\ PhaseChanges(p.id) = 0
       \/ p.phase = "slit-to-screen" /\ PhaseChanges(p.id) = 1
  /\ \A h \in HitRecords : PhaseChanges(h.id) = 1

\* C10 witness: a particle has landed after its phase change.
C10_Witness ==
  \E h \in HitRecords : PhaseChanges(h.id) = 1 /\ h.id \notin Ids(particles)

\* C11 (targetY immutability): every particle in the store holds the targetY
\* spawnParticle gave it, whatever frames and configuration changes it has
\* been through.
C11_TargetYImmutable ==
  \A p \in StoredParticles : p.targetY = EmittedOf(p.id).targetY

\* C11 witness: a particle is past the slits, and the slit distance is no
\* longer the one it was emitted under.
C11_Witness ==
  \E p \in StoredParticles :
    /\ p.phase = "slit-to-screen"
    /\ EmittedOf(p.id).slitDistance # config.slitDistance

\* C12 (id uniqueness): ids strictly increase with creation order, no two
\* particles in the store share an id, and every id handed out so far is
\* below the counter, so none is handed out again.
C12_IdUniqueness ==
  /\ \A j \in 1 .. Len(emitted), k \in 1 .. Len(emitted) :
       j < k => emitted[j].id < emitted[k].id
  /\ \A j \in 1 .. Len(particles), k \in 1 .. Len(particles) :
       j # k => particles[j].id # particles[k].id
  /\ \A e \in EmittedRecords : 0 <= e.id /\ e.id < particleIdCounter
  /\ Ids(particles) \subseteq {e.id : e \in EmittedRecords}

\* C12 witness: an observed emission was followed by an unobserved one, whose
\* twins got the next two ids, starting at an odd one.
C12_Witness ==
  \E e \in EmittedRecords, f \in EmittedRecords :
    /\ e.observer /\ ~f.observer
    /\ f.id = e.id + 1 /\ f.twinId = f.id + 1

\* onParticleLand calls since the histogram was last reset
CallsSinceReset == {k \in (resetAt + 1) .. Len(hits) : hits[k].counted}

\* the calls among them whose y has floor(y / BIN_SIZE) = b
CallsInBin(b) == {k \in CallsSinceReset : BinOf(hits[k].y) = b}

RECURSIVE SumBins(_, _)
SumBins(h, n) == IF n = 0 THEN 0 ELSE h[n - 1] + SumBins(h, n - 1)

\* C13 (histogram sink): every bin holds the number of handleParticleLand
\* calls since the last reset whose floor(y / BIN_SIZE) is that bin, calls
\* with a bin index outside [0, NUM_BINS) changed nothing, and the bins sum
\* to the number of in-range calls since the last reset.
C13_HistogramSink ==
  /\ DOMAIN histogram = 0 .. (NUM_BINS - 1)
  /\ \A b \in 0 .. (NUM_BINS - 1) : histogram[b] = Cardinality(CallsInBin(b))
  /\ SumBins(histogram, NUM_BINS) =
       Cardinality({k \in CallsSinceReset :
                      0 <= Floor(hits[k].y) /\ Floor(hits[k].y) < SCREEN_HEIGHT})

\* C13 witness: since the last reset, which dropped an earlier landing, there
\* was a call below bin 0, a call above the last bin and a call with the
\* largest double below SCREEN_HEIGHT.
C13_Witness ==
  /\ resetAt >= 1
  /\ \E i \in CallsSinceReset, j \in CallsSinceReset, k \in CallsSinceReset :
       /\ IsNeg(hits[i].y)
       /\ Floor(hits[j].y) >= SCREEN_HEIGHT
       /\ hits[k].y = << SCREEN_HEIGHT - 1, Limb - 1, Limb - 2^4, 0 >>

\* a step that changes one of the fields App's effect depends on
ResettingChange ==
  \/ config'.slitDistance # config.slitDistance
  \/ config'.wavelength # config.wavelength
  \/ config'.observerActive # config.observerActive

\* a click on the reset button: a user action that changes neither the
\* configuration nor isRunning
OnResetStep ==
  userActions' # userActions /\ config' = config /\ isRunning' = isRunning

\* C14 (histogram reset): a step that changes slitDistance, wavelength or
\* observerActive, and a click on reset, leave the histogram at NUM_BINS
\* zeros; a step that changes only emissionRate or showWaves leaves the
\* histogram as it was.
C14_HistogramReset ==
  [][/\ (ResettingChange \/ OnResetStep) =>
          histogram' = [b \in 0 .. (NUM_BINS - 1) |-> 0]
     /\ (config' # config /\ ~ResettingChange) => histogram' = histogram]_vars

\* C14 witness: a landing had been counted, then the wavelength was changed,
\* and the histogram is empty.
C14_Witness ==
  /\ \E k \in 1 .. resetAt : hits[k].counted
  /\ config.wavelength # DefaultWavelength
  /\ \A b \in DOMAIN histogram : histogram[b] = 0

\* the values generateTargetY returns lie in [0, CANVAS_HEIGHT]: those it can
\* return under the current configuration, and the targetY of every particle
\* emitted so far
SampledInRange ==
  /\ \A y \in SampledYs(config) : 0 <= y /\ y <= CANVAS_HEIGHT
  /\ \A e \in EmittedRecords : InCanvas(e.targetY)

\* C15 (sampler range), as stated: every value generateTargetY returns,
\* accepted or fallback, lies in [0, CANVAS_HEIGHT], and no landing y falls
\* in a histogram bin outside [0, NUM_BINS).
C15_SamplerRange ==
  /\ SampledInRange
  /\ \A h \in HitRecords :
       h.counted => 0 <= BinOf(h.y) /\ BinOf(h.y) < NUM_BINS

\* C15, amended: every value generateTargetY returns lies in
\* [0, CANVAS_HEIGHT]; a landing y differs from its targetY by less than
\* 2^-32, so its bin lies in [-1, NUM_BINS]; it falls outside [0, NUM_BINS)
\* only for a targetY less than 2^-32 away from 0 or from CANVAS_HEIGHT, and
\* such a landing is in no bin of the histogram.
C15_SamplerRangeTolerance ==
  /\ SampledInRange
  /\ \A h \in HitRecords :
       h.counted =>
         /\ Near(h.y, EmittedOf(h.id).targetY)
         /\ -1 <= BinOf(h.y) /\ BinOf(h.y) <= NUM_BINS
         /\ (BinOf(h.y) < 0 \/ BinOf(h.y) >= NUM_BINS) =>
              \/ Near(EmittedOf(h.id).targetY, FromInt(0))
              \/ Near(EmittedOf(h.id).targetY, FromInt(CANVAS_HEIGHT))
  /\ \A b \in 0 .. (NUM_BINS - 1) : histogram[b] = Cardinality(CallsInBin(b))

\* C15 witness: generateTargetY returned 0, the particle went through the
\* top slit and landed just above the screen's upper edge, in bin -1, and
\* the histogram has not counted it.
C15_Witness ==
  \E h \in HitRecords :
    /\ h.counted /\ IsNeg(h.y) /\ BinOf(h.y) = -1
    /\ EmittedOf(h.id).targetY = FromInt(0)
    /\ EmittedOf(h.id).originSlit = "top"
    /\ SumBins(histogram, NUM_BINS) < Cardinality(CallsSinceReset)

\* C16 (sampler termination and fallback): the loop makes at most MaxIter
\* attempts, a call that has not returned can always take its next step, and
\* after MaxIter rejections the call returns a value in the window of width
\* FallbackWidth centred on CANVAS_HEIGHT / 2.
C16_SamplerTermination ==
  /\ sampler.attempts <= MaxIter
  /\ sampler.status = "loop" =>
       sampler.attempts < MaxIter /\ ENABLED SamplerAttempt
  /\ sampler.status = "exhausted" =>
       sampler.attempts = MaxIter /\ ENABLED SamplerFallback
  /\ sampler.status = "fallback" =>
       /\ sampler.attempts = MaxIter
       /\ 2 * sampler.y >= CANVAS_HEIGHT - FallbackWidth
       /\ 2 * sampler.y <= CANVAS_HEIGHT + FallbackWidth

\* C16 witness: all MaxIter attempts were rejected and the fallback value
\* was returned.
C16_Witness ==
  sampler.status = "fallback" /\ sampler.attempts = MaxIter

\* C18 (density range): the value of getProbabilityAtY at the candidate y of
\* the call in progress, under its configuration, lies in [0, 1]: the lower
\* bound of its enclosure does not exceed 1 and the upper bound is not
\* negative.
C18_DensityRange ==
  sampler.status # "idle" =>
    /\ DensityLower(sampler.y, config.slitDistance, config.wavelength,
                    config.observerActive) <= ProbUnit
    /\ DensityUpper(sampler.y, config.slitDistance, config.wavelength,
                    config.observerActive) >= 0

\* the configuration is outside the engine's domain
InvalidConfig ==
  config.wavelength <= 0 \/ config.slitDistance <= 0 \/ config.emissionRate <= 0

\* C17 (invalid configuration is rejected): while the engine is driven with
\* an invalid configuration, it has created no particle and holds none.
C17_InvalidConfigRejected ==
  InvalidConfig => (emitted = << >> /\ particles = << >>)

\* C19 (one step per tick): a particle that is in the store before and after
\* an updateParticles call has been advanced exactly once by it: its x grew
\* by exactly vx.
C19_OneStepPerTick ==
  [][particles' # particles =>
       \A j \in 1 .. Len(particles), k \in 1 .. Len(particles') :
         particles'[k].id = particles[j].id =>
           particles'[k].x = particles[j].x + particles[j].vx]_vars

\* particles that reached SCREEN_X since the last histogram reset and that
\* the counting rule reports: any with the detector on, even ids with it off
RuleCalls ==
  {k \in (resetAt + 1) .. Len(hits) : hits[k].observer \/ hits[k].id % 2 = 0}

\* C20 (counting rule at landing): a particle that reaches SCREEN_X causes
\* one onParticleLand call with its y if the detector is on or its id is
\* even, and none if the detector is off and its id is odd; no particle
\* reaches the screen twice, and a twin removed by its partner's landing
\* causes no call.
C20_CountingRule ==
  /\ \A h \in HitRecords : h.counted <=> (h.observer \/ h.id % 2 = 0)
  /\ \A j \in 1 .. Len(hits), k \in 1 .. Len(hits) :
       j # k => hits[j].id # hits[k].id /\ hits[j].id # hits[k].twinId
  /\ \A calls \in {RuleCalls} : \A b \in 0 .. (NUM_BINS - 1) :
       histogram[b] =
         Cardinality({k \in calls : BinOf(hits[k].y) = b})

\* C20 witness: an odd-id twin landed uncounted with the detector off, and
\* later a twin landed counted with the detector on.
C20_Witness ==
  \E j \in 1 .. Len(hits), k \in 1 .. Len(hits) :
    /\ j < k
    /\ ~hits[j].observer /\ hits[j].id % 2 = 1 /\ ~hits[j].counted
    /\ hits[k].observer /\ hits[k].counted /\ hits[k].twinId # NoTwin

\* the phase-change entry of the particle with this id
CrossingOf(id) == CHOOSE c \in CrossingRecords : c.id = id

\* C21 (slit crossing): on the tick a source-to-slit particle's x first
\* reaches SLIT_X, its y becomes CANVAS_HEIGHT/2 - slitDistance/2 (top) or
\* CANVAS_HEIGHT/2 + slitDistance/2 (bottom) for the slit distance of that
\* tick, its vy becomes (targetY - y) / ((SCREEN_X - SLIT_X) / vx) from the
\* snapped y, and vx is unchanged; vy changes at no other time, so a stored
\* particle carries its emission vy before the slits and its crossing vy
\* after them.
C21_SlitCrossing ==
  /\ \A c \in CrossingRecords :
       \A e \in {EmittedOf(c.id)} :
         /\ c.x >= SLIT_X /\ c.x - c.vx < SLIT_X
         /\ c.from = "source-to-slit" /\ c.to = "slit-to-screen"
         /\ c.yAfter = IF e.originSlit = "top"
                       THEN Minus(CenterY, Over(FromInt(c.slitDistance), 2))
                       ELSE Plus(CenterY, Over(FromInt(c.slitDistance), 2))
         /\ c.vy = Over(Minus(e.targetY, c.yAfter),
                        (SCREEN_X - SLIT_X) \div c.vx)
         /\ c.vx = e.vx
  /\ \A j \in 1 .. Len(crossings), k \in 1 .. Len(crossings) :
       j # k => crossings[j].id # crossings[k].id
  /\ \A p \in StoredParticles :
       /\ p.vx = EmittedOf(p.id).vx
       /\ p.vy = IF p.phase = "source-to-slit"
                 THEN EmittedOf(p.id).vy
                 ELSE CrossingOf(p.id).vy

\* C21 witness: a bottom particle crossed the slits under a slit distance
\* other than the one it was emitted under, and is still in flight.
C21_Witness ==
  \E p \in StoredParticles :
    /\ p.phase = "slit-to-screen"
    /\ p.originSlit = "bottom"
    /\ CrossingOf(p.id).slitDistance # EmittedOf(p.id).slitDistance
    /\ p.vy = CrossingOf(p.id).vy

\* whether the next frame, dt ms after this one, calls spawnParticle with
\* effect when timestamp - lastSpawnTime is `since`
EmitsAfter(since, dt) ==
  isRunning /\ GateOpen(Sat(since + dt), config.emissionRate)

\* C22 (showWaves does not influence the physics): a run in which showWaves
\* is toggled and the run in which it is not, fed the same frames and draws,
\* go through the same particle stores and onParticleLand calls.  The two
\* runs are in the states before and after the toggle; they stay together
\* only if the toggle leaves the store, the counter and the histogram alone,
\* the loop is scheduled in both or in neither, and the next frame emits in
\* both or in neither.
C22_ShowWavesNonInterference ==
  [][config'.showWaves # config.showWaves =>
       /\ particles' = particles
       /\ particleIdCounter' = particleIdCounter
       /\ histogram' = histogram
       /\ isRunning' = isRunning
       /\ loopAlive' = loopAlive
       /\ \A dt \in FrameDts :
            loopAlive => (EmitsAfter(sinceSpawn', dt) <=> EmitsAfter(sinceSpawn, dt))
    ]_vars

\* C23 (position/phase invariant): between two ticks every particle in the
\* store has SOURCE_X <= x < SCREEN_X with x - SOURCE_X a multiple of vx, is
\* in phase source-to-slit exactly when x < SLIT_X and in phase
\* slit-to-screen exactly when x >= SLIT_X, and none is in phase landed.
C23_PositionPhase ==
  \A p \in StoredParticles :
    /\ SOURCE_X <= p.x /\ p.x < SCREEN_X
    /\ (p.x - SOURCE_X) % p.vx = 0
    /\ (p.phase = "source-to-slit") <=> (p.x < SLIT_X)
    /\ (p.phase = "slit-to-screen") <=> (p.x >= SLIT_X)
    /\ p.phase # "landed"

\* C23 witness: one particle stands exactly at the slits in its second phase
\* while the particle emitted one frame later is one step before them.
C23_Witness ==
  \E p \in StoredParticles, q \in StoredParticles :
    /\ p.x = SLIT_X /\ p.phase = "slit-to-screen"
    /\ q.x = SLIT_X - q.vx /\ q.phase = "source-to-slit"

\* C24 (single particles always count): a particle emitted with the detector
\* on (no twinId) causes exactly one onParticleLand call when it reaches
\* SCREEN_X, whatever its id and whatever observerActive is by then.
C24_SinglesAlwaysCount ==
  /\ \A h \in HitRecords : h.twinId = NoTwin => h.counted
  /\ \A j \in 1 .. Len(hits), k \in 1 .. Len(hits) :
       (j # k /\ hits[j].twinId = NoTwin) => hits[j].id # hits[k].id

\* C25 (no stale landings after a reset): every count added to the histogram
\* since its last reset comes from a particle whose targetY was sampled
\* under the present slit distance and detector setting; a particle emitted
\* before the change that reset the histogram adds no count to it.
C25_NoStaleLandings ==
  \A k \in (resetAt + 1) .. Len(hits) :
    hits[k].counted =>
      \A e \in {EmittedOf(hits[k].id)} :
        /\ e.slitDistance = config.slitDistance
        /\ e.observer = config.observerActive

=============================================================================
